---- MODULE Spec2Model ----
(***************************************************************************)
(* Subscription ledger, webhook reconciler, referral benefit engine and    *)
(* checkout orchestrator of the payment app (backend/payment/views.py,     *)
(* payment/models.py), together with the payment provider they talk to.    *)
(* Times are in days; primary keys and provider ids are positive integers. *)
(***************************************************************************)
EXTENDS Integers, Sequences, FiniteSets, Bags, TLC

\* ------------------------------------------------------------ bounds
NumUsers == 2
MaxRows == 2
MaxUpdates == 1
MaxTicks == 1
MaxSteps == 5

\* ------------------------------------------------------------ constants
Null == 0 - 1
ReferrerDays == 30
RefereeDays == 7
TickDays == 10

Users == 1..NumUsers
Plans == {1, 2}

\* The plan registry: the spec's scenario plan (month x 2, no trial) and a
\* weekly plan with a trial.
Plan(p) ==
    IF p = 1 THEN [interval |-> "month", interval_count |-> 2, trial_days |-> 0]
    ELSE [interval |-> "week", interval_count |-> 1, trial_days |-> 7]

StatusChoices == {"pending", "trialing", "active", "past_due", "canceled", "unpaid"}

EventTypes == {"checkout.session.completed", "customer.subscription.created",
               "customer.subscription.updated", "customer.subscription.deleted"}

\* What the provider reports as a subscription's status.
ProviderStatuses == {"incomplete", "trialing", "active", "past_due", "canceled", "unpaid"}

VARIABLES
    users,      \* User rows: referral_code, referred_by, is_unlimited, package_expiry
    subs,       \* Subscription rows in primary-key order
    webhooks,   \* WebhookEvent rows: a bag of [event_id, type]
    inflight,   \* checkout requests between customer resolution and row insertion
    stripe,     \* the provider: customers, sessions, subscriptions, emitted events
    now,        \* timezone.now()
    engine_log, \* the checkout sessions process_referral_benefits was run for (a bag)
    last,       \* what the last request did: response code and log lines
    steps       \* how many steps have changed the database, the provider or the clock

data == <<users, subs, webhooks, inflight, stripe, now, engine_log>>
vars == <<users, subs, webhooks, inflight, stripe, now, engine_log, last, steps>>

\* ------------------------------------------------------------ helpers
Min(S) == CHOOSE x \in S : \A y \in S : x <= y

\* QuerySet.first() on rows ordered by primary key; 0 when no row matches.
First(S) == IF S = {} THEN 0 ELSE Min(S)

Rows == DOMAIN subs

\* row: the row the request located (0: none); engine: process_referral_benefits
\* was called; dup: the WebhookEvent insert failed; err: the error reported or
\* logged; evt: the id of the object of the event delivered (0: not a webhook).
Resp(op, code, row, engine, dup, err) ==
    [op |-> op, code |-> code, row |-> row, engine |-> engine, dup |-> dup, err |-> err,
     evt |-> 0]

\* make_aware(datetime.fromtimestamp(ts)) if ts else None
FromTimestamp(ts) == IF ts = Null \/ ts = 0 THEN Null ELSE ts

\* The period end counted from the clock whatever start_date is given.
calculate_current_period_end_from_now(plan, start_date) ==
    IF plan.interval = "day" THEN now + plan.interval_count
    ELSE IF plan.interval = "week" THEN now + 7 * plan.interval_count
    ELSE IF plan.interval = "month" THEN now + 30 * plan.interval_count
    ELSE IF plan.interval = "year" THEN now + 365 * plan.interval_count
    ELSE now + 30

calculate_current_period_end(plan, start_date) ==
    LET start == IF start_date = Null THEN now ELSE start_date IN
    IF plan.interval = "day" THEN start + plan.interval_count
    ELSE IF plan.interval = "week" THEN start + 7 * plan.interval_count
    ELSE IF plan.interval = "month" THEN start + 30 * plan.interval_count
    ELSE IF plan.interval = "year" THEN start + 365 * plan.interval_count
    ELSE start + 30

is_trial(s) ==
    IF s.trial_end = Null THEN FALSE
    ELSE s.status \in {"trialing", "active"} /\ s.trial_end > now

is_paid_active(s) == s.status = "active"

ActiveRows(u) == {i \in Rows : subs[i].user = u /\ subs[i].status \in {"active", "trialing"}}

get_user_active_subscription(u) == First(ActiveRows(u))

\* The engine granting the purchaser's bonus whether or not a referrer is found.
process_referral_benefits_bonus_anyway(us, u, s) ==
    LET code == us[u].referred_by
        found == {r \in DOMAIN us : us[r].referral_code = code}
        base_time == IF s.current_period_end # Null THEN s.current_period_end ELSE now
        granted == IF code = Null \/ found = {} THEN us
                   ELSE [us EXCEPT ![CHOOSE r \in found : TRUE].is_unlimited = TRUE,
                                   ![CHOOSE r \in found : TRUE].package_expiry =
                                       base_time + ReferrerDays]
    IN  [granted EXCEPT ![u].is_unlimited = TRUE,
                        ![u].package_expiry = base_time + RefereeDays]

\* The engine with base_time taken from the clock whatever the row says.
process_referral_benefits_from_now(us, u, s) ==
    LET code == us[u].referred_by
        found == {r \in DOMAIN us : us[r].referral_code = code}
    IN  IF code = Null \/ found = {} THEN us
        ELSE LET referrer == CHOOSE r \in found : TRUE
                 granted == [us EXCEPT ![referrer].is_unlimited = TRUE,
                                       ![referrer].package_expiry = now + ReferrerDays]
             IN  [granted EXCEPT ![u].is_unlimited = TRUE,
                                 ![u].package_expiry = now + RefereeDays]

\* The referral benefit engine on the user table us, for purchaser u and row s.
process_referral_benefits(us, u, s) ==
    LET code == us[u].referred_by
        found == {r \in DOMAIN us : us[r].referral_code = code}
    IN  IF code = Null \/ found = {} THEN us
        ELSE LET referrer == CHOOSE r \in found : TRUE
                 base_time == IF s.current_period_end # Null
                              THEN s.current_period_end ELSE now
                 granted == [us EXCEPT ![referrer].is_unlimited = TRUE,
                                       ![referrer].package_expiry = base_time + ReferrerDays]
             IN  [granted EXCEPT ![u].is_unlimited = TRUE,
                                 ![u].package_expiry = base_time + RefereeDays]

\* ------------------------------------------------------------ initial state
\* The users exist before any checkout. RegisterSerializer.create stores in
\* referred_by only the referral code of a user registered earlier: user 1 was
\* referred by nobody, every later user by the user registered before.
UserTable ==
    [u \in Users |-> [referral_code |-> u,
                      referred_by |-> IF u = 1 THEN Null ELSE u - 1,
                      is_unlimited |-> FALSE,
                      package_expiry |-> Null]]

Init ==
    /\ users = UserTable
    /\ subs = <<>>
    /\ webhooks = EmptyBag
    /\ inflight = EmptyBag
    /\ \E withCpe \in BOOLEAN :
          stripe = [sessions |-> <<>>, subscriptions |-> <<>>,
                    events |-> {}, updates |-> 0, withCpe |-> withCpe]
    /\ now = 0
    /\ engine_log = EmptyBag
    /\ last = Resp("init", 0, 0, FALSE, FALSE, "")
    /\ steps = 0

\* Behaviours are explored up to MaxSteps steps that change something; a
\* request that changes nothing but its response is not counted.
Counted == steps' = (IF data' = data THEN steps ELSE steps + 1) /\ steps' <= MaxSteps

\* Time passes: TickDays days at a time, longer than any trial.
Tick ==
    /\ now < MaxTicks * TickDays
    /\ now' = now + TickDays
    /\ UNCHANGED <<users, subs, webhooks, inflight, stripe, last, engine_log>>
    /\ Counted

\* ------------------------------------------------------------ checkout
\* The conflict payload of CreateSubscriptionView.post for the blocking row s.
ConflictError(s) ==
    IF is_trial(s) THEN "You already have an active trial period"
    ELSE IF is_paid_active(s) THEN "You already have an active subscription"
    ELSE ""

\* The row whose provider customer the checkout reuses (0: a new customer).
CustomerRow(u) ==
    LET existing_sub == First({i \in Rows : subs[i].user = u})
    IN  IF existing_sub # 0 /\ subs[existing_sub].stripe_customer_id # Null
        THEN existing_sub ELSE 0

\* The provider has no subscription yet for a session that is not paid.
NoSubscription ==
    [customer |-> Null, status |-> "none", version |-> 0, trial_end |-> Null,
     current_period_end |-> Null]
\* A provider that hands every caller the customer id of the first row.
NewCustomerShared ==
    IF Rows = {} THEN 1 ELSE subs[1].stripe_customer_id

\* stripe.Customer.create: an id no row and no request in flight carries.
NewCustomer ==
    LET used == {subs[i].stripe_customer_id : i \in Rows}
                \cup {r.customer : r \in BagToSet(inflight)} \cup {0}
    IN  1 + CHOOSE c \in used : \A d \in used : d <= c

\* stripe.checkout.Session.create for request r.
NewSession(r) ==
    [user_id |-> r.user, plan_id |-> r.plan, customer |-> r.customer, subscription |-> Null]

\* The row inserted as trialing straight away when the plan has a trial.
PendingRowTrialing(r) ==
    [user |-> r.user, plan |-> r.plan,
     stripe_customer_id |-> r.customer,
     stripe_subscription_id |-> Null,
     status |-> IF Plan(r.plan).trial_days > 0 THEN "trialing" ELSE "pending",
     trial_end |-> Null,
     current_period_end |-> calculate_current_period_end(Plan(r.plan), Null),
     auto_renew |-> TRUE,
     created_at |-> now]

\* The pending row inserted without a provisional current_period_end.
PendingRowNoEnd(r) ==
    [user |-> r.user, plan |-> r.plan,
     stripe_customer_id |-> r.customer,
     stripe_subscription_id |-> Null,
     status |-> "pending",
     trial_end |-> Null,
     current_period_end |-> Null,
     auto_renew |-> TRUE,
     created_at |-> now]

\* Subscription.objects.create for request r.
PendingRow(r) ==
    [user |-> r.user, plan |-> r.plan,
     stripe_customer_id |-> r.customer,
     stripe_subscription_id |-> Null,
     status |-> "pending",
     trial_end |-> Null,
     current_period_end |-> calculate_current_period_end(Plan(r.plan), Null),
     auto_renew |-> TRUE,
     created_at |-> now]

\* The rejections of CreateSubscriptionView.post before any provider call:
\* unknown plan, or a row of the user in status active or trialing.
Rejection(u, p) ==
    IF p \notin Plans
    THEN Resp("create-subscription", 404, 0, FALSE, FALSE, "Plan not found")
    ELSE Resp("create-subscription", 400, get_user_active_subscription(u), FALSE, FALSE,
              ConflictError(subs[get_user_active_subscription(u)]))

\* The plan lookup alone, without the check for an active or trialing row.
RejectedPlanOnly(u, p) == p \notin Plans

Rejected(u, p) == p \notin Plans \/ get_user_active_subscription(u) # 0

\* The view inserting the pending row before it creates the checkout session,
\* so that the row stays when the session call fails.
CreateSubscriptionRowFirst(u, p, okCustomer, okSession) ==
    /\ okCustomer \/ okSession
    /\ Rejected(u, p) \/ Len(subs) < MaxRows
    /\ inflight = EmptyBag
    /\ IF Rejected(u, p)
       THEN /\ last' = Rejection(u, p)
            /\ UNCHANGED <<subs, stripe>>
       ELSE IF ~okCustomer
       THEN /\ last' = Resp("create-subscription", 400, 0, FALSE, FALSE, "Stripe error")
            /\ UNCHANGED <<subs, stripe>>
       ELSE LET reuse == CustomerRow(u)
                customer == IF reuse # 0 THEN subs[reuse].stripe_customer_id ELSE NewCustomer
                r == [user |-> u, plan |-> p, customer |-> customer]
            IN  /\ stripe' = [stripe EXCEPT !.sessions = Append(@, NewSession(r)),
                                            !.subscriptions = Append(@, NoSubscription)]
                /\ subs' = Append(subs, PendingRow(r))
                /\ last' = IF okSession
                           THEN Resp("create-subscription", 201, Len(subs) + 1, FALSE, FALSE, "")
                           ELSE Resp("create-subscription", 400, 0, FALSE, FALSE, "Stripe error")
    /\ UNCHANGED <<users, webhooks, inflight, now, engine_log>>
    /\ Counted

\* CreateSubscriptionView.post as one step. okCustomer, okSession: whether the
\* provider's customer call and session call succeed.
CreateSubscription(u, p, okCustomer, okSession) ==
    /\ okCustomer \/ okSession
    /\ Rejected(u, p) \/ Len(subs) < MaxRows
    /\ inflight = EmptyBag
    /\ IF Rejected(u, p)
       THEN /\ last' = Rejection(u, p)
            /\ UNCHANGED <<subs, stripe>>
       ELSE IF ~okCustomer
       THEN /\ last' = Resp("create-subscription", 400, 0, FALSE, FALSE, "Stripe error")
            /\ UNCHANGED <<subs, stripe>>
       ELSE LET reuse == CustomerRow(u)
                customer == IF reuse # 0 THEN subs[reuse].stripe_customer_id ELSE NewCustomer
                r == [user |-> u, plan |-> p, customer |-> customer]
            IN  IF ~okSession
                THEN /\ last' = Resp("create-subscription", 400, 0, FALSE, FALSE, "Stripe error")
                     /\ UNCHANGED <<subs, stripe>>
                ELSE /\ stripe' = [stripe EXCEPT !.sessions = Append(@, NewSession(r)),
                                                 !.subscriptions = Append(@, NoSubscription)]
                        /\ subs' = Append(subs, PendingRow(r))
                        /\ last' = Resp("create-subscription", 201, Len(subs) + 1, FALSE, FALSE, "")
    /\ UNCHANGED <<users, webhooks, inflight, now, engine_log>>
    /\ Counted

\* CreateSubscriptionView.post under concurrent requests, first step: the
\* conflict check and the lookup or creation of the provider customer.
StartCheckout(u, p, ok) ==
    /\ Len(subs) + BagCardinality(inflight) < MaxRows
    /\ IF Rejected(u, p)
       THEN /\ last' = Rejection(u, p)
            /\ UNCHANGED <<inflight, stripe>>
       ELSE IF ~ok
       THEN /\ last' = Resp("create-subscription", 400, 0, FALSE, FALSE, "Stripe error")
            /\ UNCHANGED <<inflight, stripe>>
       ELSE LET reuse == CustomerRow(u)
                customer == IF reuse # 0 THEN subs[reuse].stripe_customer_id ELSE NewCustomer
            IN  /\ inflight' = inflight (+) SetToBag({[user |-> u, plan |-> p, customer |-> customer]})
                /\ UNCHANGED <<stripe, last>>
    /\ UNCHANGED <<users, subs, webhooks, now, engine_log>>
    /\ Counted

\* Second step: the checkout session is created at the provider and the
\* pending row is inserted.
InsertPending(r, ok) ==
    /\ BagIn(r, inflight)
    /\ inflight' = inflight (-) SetToBag({r})
    /\ IF ~ok
       THEN /\ last' = Resp("create-subscription", 400, 0, FALSE, FALSE, "Stripe error")
            /\ UNCHANGED <<subs, stripe>>
       ELSE /\ stripe' = [stripe EXCEPT !.sessions = Append(@, NewSession(r)),
                                        !.subscriptions = Append(@, NoSubscription)]
            /\ subs' = Append(subs, PendingRow(r))
            /\ last' = Resp("create-subscription", 201, Len(subs) + 1, FALSE, FALSE, "")
    /\ UNCHANGED <<users, webhooks, now, engine_log>>
    /\ Counted

\* One of the requests in flight takes its second step.
FinishCheckout(ok) ==
    \E r \in BagToSet(inflight) : InsertPending(r, ok)

\* ------------------------------------------------------------ provider
\* An emitted event; its id names the object and the object's version.
Event(id, type, obj) == [id |-> id, type |-> type, object |-> obj]

\* The payload object of a customer.subscription.* event: a snapshot of
\* provider subscription sid.
SubscriptionObject(sid, s) ==
    [id |-> sid, customer |-> s.customer, subscription |-> Null,
     user_id |-> Null, plan_id |-> Null,
     status |-> s.status, trial_end |-> s.trial_end,
     current_period_end |-> s.current_period_end]

\* The payload object of checkout.session.completed for session i.
SessionObject(i, c) ==
    [id |-> i, customer |-> c.customer, subscription |-> c.subscription,
     user_id |-> c.user_id, plan_id |-> c.plan_id,
     status |-> "complete", trial_end |-> Null, current_period_end |-> Null]

\* The customer pays checkout session i: the provider creates the subscription
\* (trialing when the plan has a trial, else incomplete until the first invoice
\* is paid) and emits customer.subscription.created and checkout.session.completed.
\* stripe.withCpe: whether this provider API version puts current_period_end
\* on the subscription object.
Pay(i, st) ==
    /\ i \in DOMAIN stripe.sessions
    /\ stripe.sessions[i].subscription = Null
    /\ LET c == stripe.sessions[i]
           plan == Plan(c.plan_id)
           trial == plan.trial_days > 0
           sid == i
           start == IF trial THEN now + plan.trial_days ELSE now
           s == [customer |-> c.customer,
                 status |-> st,
                 version |-> 1,
                 trial_end |-> IF trial THEN now + plan.trial_days ELSE Null,
                 current_period_end |-> IF stripe.withCpe
                                        THEN IF trial THEN start
                                             ELSE calculate_current_period_end(plan, start)
                                        ELSE Null]
           paid == [c EXCEPT !.subscription = sid]
       IN  /\ st = IF trial THEN "trialing" ELSE "incomplete"
           /\ stripe' = [stripe EXCEPT
                  !.sessions[i] = paid,
                  !.subscriptions[sid] = s,
                  !.events = @ \cup
                      {Event(<<"sub", sid, 1>>, "customer.subscription.created", SubscriptionObject(sid, s)),
                       Event(<<"cs", i, 1>>, "checkout.session.completed", SessionObject(i, paid))}]
    /\ UNCHANGED <<users, subs, webhooks, inflight, now, last, engine_log>>
    /\ Counted

\* The status changes the provider makes to a live subscription.
ProviderTransitions(st) ==
    IF st = "incomplete" THEN {"active"}
    ELSE IF st = "trialing" THEN {"active", "past_due"}
    ELSE IF st = "active" THEN {"past_due"}
    ELSE IF st = "past_due" THEN {"active", "unpaid"}
    ELSE IF st = "unpaid" THEN {"active"}
    ELSE {}

\* The provider changes a live subscription's status (first payment, end of
\* trial, failed renewal) and emits customer.subscription.updated, or cancels
\* it and emits customer.subscription.deleted.
ProviderUpdate(sid, st, type) ==
    /\ sid \in DOMAIN stripe.subscriptions
    /\ stripe.updates < MaxUpdates
    /\ LET old == stripe.subscriptions[sid]
           s == [old EXCEPT !.status = st, !.version = @ + 1]
       IN  /\ old.status \notin {"none", "canceled"}
           /\ CASE type = "customer.subscription.updated" -> st \in ProviderTransitions(old.status)
                [] type = "customer.subscription.deleted" -> st = "canceled"
                [] OTHER -> FALSE
           /\ stripe' = [stripe EXCEPT
                  !.subscriptions[sid] = s,
                  !.updates = @ + 1,
                  !.events = @ \cup {Event(<<"sub", sid, s.version>>, type, SubscriptionObject(sid, s))}]
    /\ UNCHANGED <<users, subs, webhooks, inflight, now, last, engine_log>>
    /\ Counted

\* ------------------------------------------------------------ webhook
NoEffect(ss, us) ==
    [subs |-> ss, users |-> us, row |-> 0, n |-> 0, engine |-> FALSE, err |-> ""]

Failed(ss, us, err) == [NoEffect(ss, us) EXCEPT !.err = err]

\* The completed branch falling back to the row that already carries the
\* subscription id when no pending row matches.
checkout_session_completed_by_id(ss, us, obj, ok, retrieved) ==
    IF obj.user_id = Null \/ obj.subscription = Null THEN NoEffect(ss, us)
    ELSE IF ~ok THEN Failed(ss, us, "Error processing checkout.session.completed")
    ELSE LET pending == First({i \in DOMAIN ss : /\ ss[i].user = obj.user_id
                                                 /\ ss[i].stripe_customer_id = obj.customer
                                                 /\ ss[i].status = "pending"})
             row == IF pending # 0 THEN pending
                    ELSE First({i \in DOMAIN ss : ss[i].stripe_subscription_id = obj.subscription})
         IN  IF row = 0 THEN NoEffect(ss, us)
             ELSE LET saved == [ss[row] EXCEPT !.stripe_subscription_id = obj.subscription,
                                               !.status = retrieved.status,
                                               !.trial_end = FromTimestamp(retrieved.trial_end)]
                  IN  [subs |-> [ss EXCEPT ![row] = saved],
                       users |-> process_referral_benefits(us, saved.user, saved),
                       row |-> row, n |-> 1, engine |-> TRUE, err |-> ""]

\* stripe_webhook, checkout.session.completed branch, on ledger ss and user
\* table us; retrieved is what stripe.Subscription.retrieve returns, ok whether
\* it returned at all.
checkout_session_completed(ss, us, obj, ok, retrieved) ==
    IF obj.user_id = Null \/ obj.subscription = Null THEN NoEffect(ss, us)
    ELSE IF ~ok THEN Failed(ss, us, "Error processing checkout.session.completed")
    ELSE LET row == First({i \in DOMAIN ss : /\ ss[i].user = obj.user_id
                                             /\ ss[i].stripe_customer_id = obj.customer
                                             /\ ss[i].status = "pending"})
         IN  IF row = 0 THEN NoEffect(ss, us)
             ELSE LET trial_end == FromTimestamp(retrieved.trial_end)
                      current_period_end ==
                          IF FromTimestamp(retrieved.current_period_end) # Null
                          THEN FromTimestamp(retrieved.current_period_end)
                          ELSE IF ss[row].plan # Null
                               THEN calculate_current_period_end(Plan(ss[row].plan), ss[row].created_at)
                               ELSE Null
                      saved == [ss[row] EXCEPT !.stripe_subscription_id = obj.subscription,
                                               !.status = retrieved.status,
                                               !.trial_end = trial_end,
                                               !.current_period_end = current_period_end]
                  IN  [subs |-> [ss EXCEPT ![row] = saved],
                       users |-> process_referral_benefits(us, saved.user, saved),
                       row |-> row, n |-> 1, engine |-> TRUE, err |-> ""]

\* The created branch looking for the customer's pending row first and for the
\* subscription id only when there is none.
subscription_created_by_customer(ss, us, obj) ==
    LET pending == First({i \in DOMAIN ss : /\ ss[i].stripe_customer_id = obj.customer
                                            /\ ss[i].status = "pending"})
        row == IF pending # 0 THEN pending
               ELSE First({i \in DOMAIN ss : ss[i].stripe_subscription_id = obj.id})
    IN  IF row = 0 THEN NoEffect(ss, us)
        ELSE [subs |-> [ss EXCEPT ![row] =
                          [@ EXCEPT !.stripe_subscription_id = obj.id,
                                    !.status = obj.status,
                                    !.trial_end = FromTimestamp(obj.trial_end),
                                    !.current_period_end = FromTimestamp(obj.current_period_end)]],
              users |-> us, row |-> row, n |-> 1, engine |-> FALSE, err |-> ""]

\* customer.subscription.created branch.
subscription_created(ss, us, obj) ==
    LET by_id == First({i \in DOMAIN ss : ss[i].stripe_subscription_id = obj.id})
        row == IF by_id # 0 THEN by_id
               ELSE First({i \in DOMAIN ss : /\ ss[i].stripe_customer_id = obj.customer
                                            /\ ss[i].status = "pending"})
    IN  IF row = 0 THEN NoEffect(ss, us)
        ELSE [subs |-> [ss EXCEPT ![row] =
                          [@ EXCEPT !.stripe_subscription_id = obj.id,
                                    !.status = obj.status,
                                    !.trial_end = FromTimestamp(obj.trial_end),
                                    !.current_period_end = FromTimestamp(obj.current_period_end)]],
              users |-> us, row |-> row, n |-> 1, engine |-> FALSE, err |-> ""]

\* The updated branch falling back, as the created branch does, to the pending
\* row of the customer when no row carries the id.
subscription_updated_fallback(ss, us, obj) ==
    LET by_id == {i \in DOMAIN ss : ss[i].stripe_subscription_id = obj.id}
        hit == IF by_id # {} THEN by_id
               ELSE {i \in DOMAIN ss : /\ ss[i].stripe_customer_id = obj.customer
                                        /\ ss[i].status = "pending"}
    IN  [subs |-> [i \in DOMAIN ss |->
                     IF i \in hit
                     THEN [ss[i] EXCEPT !.status = obj.status,
                                        !.trial_end = FromTimestamp(obj.trial_end),
                                        !.current_period_end = FromTimestamp(obj.current_period_end)]
                     ELSE ss[i]],
         users |-> us, row |-> First(hit), n |-> Cardinality(hit), engine |-> FALSE, err |-> ""]

\* customer.subscription.updated branch: a bulk update of the matching rows.
subscription_updated(ss, us, obj) ==
    LET hit == {i \in DOMAIN ss : ss[i].stripe_subscription_id = obj.id}
    IN  [subs |-> [i \in DOMAIN ss |->
                     IF i \in hit
                     THEN [ss[i] EXCEPT !.status = obj.status,
                                        !.trial_end = FromTimestamp(obj.trial_end),
                                        !.current_period_end = FromTimestamp(obj.current_period_end)]
                     ELSE ss[i]],
         users |-> us, row |-> First(hit), n |-> Cardinality(hit), engine |-> FALSE, err |-> ""]

\* The deleted branch also switching auto_renew off on the rows it cancels.
subscription_deleted_stop_renewal(ss, us, obj) ==
    LET hit == {i \in DOMAIN ss : ss[i].stripe_subscription_id = obj.id}
    IN  [subs |-> [i \in DOMAIN ss |->
                     IF i \in hit THEN [ss[i] EXCEPT !.status = "canceled", !.auto_renew = FALSE]
                     ELSE ss[i]],
         users |-> us, row |-> First(hit), n |-> Cardinality(hit), engine |-> FALSE, err |-> ""]

\* customer.subscription.deleted branch: a bulk update of the matching rows.
subscription_deleted(ss, us, obj) ==
    LET hit == {i \in DOMAIN ss : ss[i].stripe_subscription_id = obj.id}
    IN  [subs |-> [i \in DOMAIN ss |->
                     IF i \in hit THEN [ss[i] EXCEPT !.status = "canceled"] ELSE ss[i]],
         users |-> us, row |-> First(hit), n |-> Cardinality(hit), engine |-> FALSE, err |-> ""]

\* The dispatch on the event type; unhandled types are logged only.
Dispatch(ss, us, e, ok, retrieved) ==
    IF e.type = "checkout.session.completed"
    THEN checkout_session_completed(ss, us, e.object, ok, retrieved)
    ELSE IF e.type = "customer.subscription.created" THEN subscription_created(ss, us, e.object)
    ELSE IF e.type = "customer.subscription.updated" THEN subscription_updated(ss, us, e.object)
    ELSE IF e.type = "customer.subscription.deleted" THEN subscription_deleted(ss, us, e.object)
    ELSE NoEffect(ss, us)

\* An event of a type the webhook does not handle; the provider emits such
\* events at any time.
OtherEvent ==
    Event(<<"in", 1, 1>>, "invoice.paid",
          [id |-> 1, customer |-> 1, subscription |-> Null, user_id |-> Null, plan_id |-> Null,
           status |-> "paid", trial_end |-> Null, current_period_end |-> Null])

\* stripe.Subscription.retrieve for the event's subscription (any subscription
\* when the event names none: the result is then not used).
Retrieve(e) ==
    IF e.object.subscription \in DOMAIN stripe.subscriptions
    THEN stripe.subscriptions[e.object.subscription]
    ELSE NoSubscription

\* WebhookEvent.objects.create without the unique constraint.
StoreEventAlways(log, e) ==
    log (+) SetToBag({[event_id |-> e.id, type |-> e.type]})

\* WebhookEvent.objects.create under the unique constraint on event_id.
StoreEvent(log, e) ==
    IF \E w \in BagToSet(log) : w.event_id = e.id THEN log
    ELSE log (+) SetToBag({[event_id |-> e.id, type |-> e.type]})

\* The handler returning as soon as the event id is found in the log.
stripe_webhook_dedup(e, ok) ==
    /\ ok \/ e.type = "checkout.session.completed"
    /\ LET dup == \E w \in BagToSet(webhooks) : w.event_id = e.id
           out == IF dup THEN NoEffect(subs, users)
                  ELSE Dispatch(subs, users, e, ok, Retrieve(e))
       IN  /\ webhooks' = StoreEvent(webhooks, e)
           /\ subs' = out.subs
           /\ users' = out.users
           /\ engine_log' = IF out.engine THEN engine_log (+) SetToBag({e.object.id})
                             ELSE engine_log
           /\ last' = [Resp(e.type, 200, out.row, out.engine, dup, out.err)
                         EXCEPT !.evt = e.object.id]
    /\ UNCHANGED <<inflight, stripe, now>>
    /\ Counted

\* The handler letting a failure inside a branch reach the outer except (500).
stripe_webhook_raising(e, ok) ==
    /\ ok \/ e.type = "checkout.session.completed"
    /\ LET out == Dispatch(subs, users, e, ok, Retrieve(e))
       IN  /\ webhooks' = StoreEvent(webhooks, e)
           /\ subs' = out.subs
           /\ users' = out.users
           /\ engine_log' = IF out.engine THEN engine_log (+) SetToBag({e.object.id})
                             ELSE engine_log
           /\ last' = [Resp(e.type, IF out.err = "" THEN 200 ELSE 500, out.row, out.engine,
                            \E w \in BagToSet(webhooks) : w.event_id = e.id, out.err)
                         EXCEPT !.evt = e.object.id]
    /\ UNCHANGED <<inflight, stripe, now>>
    /\ Counted

\* stripe_webhook for a delivery whose signature verifies: the event is stored
\* unless its id is already there, then dispatched. The provider delivers any
\* emitted event, in any order, any number of times.
stripe_webhook(e, ok) ==
    /\ ok \/ e.type = "checkout.session.completed"
    /\ LET out == Dispatch(subs, users, e, ok, Retrieve(e))
       IN  /\ webhooks' = StoreEvent(webhooks, e)
           /\ subs' = out.subs
           /\ users' = out.users
           /\ engine_log' = IF out.engine THEN engine_log (+) SetToBag({e.object.id})
                             ELSE engine_log
           /\ last' = [Resp(e.type, 200, out.row, out.engine,
                            \E w \in BagToSet(webhooks) : w.event_id = e.id, out.err)
                         EXCEPT !.evt = e.object.id]
    /\ UNCHANGED <<inflight, stripe, now>>
    /\ Counted

\* The provider delivers one of the events it has emitted, or an event of
\* another type.
Webhook(ok) ==
    \E e \in stripe.events \cup {OtherEvent} : stripe_webhook(e, ok)

\* The handler storing the event before it verifies the signature.
BadWebhookStoring ==
    /\ webhooks' = StoreEvent(webhooks, OtherEvent)
    /\ last' = Resp("webhook", 400, 0, FALSE, FALSE, "Invalid signature")
    /\ UNCHANGED <<users, subs, inflight, stripe, now, engine_log>>
    /\ Counted

\* stripe_webhook for a delivery whose signature or payload is invalid.
BadWebhook ==
    /\ last' = Resp("webhook", 400, 0, FALSE, FALSE, "Invalid signature")
    /\ UNCHANGED <<users, subs, webhooks, inflight, stripe, now, engine_log>>
    /\ Counted

\* ------------------------------------------------------------ other views
\* CheckoutSessionStatusView.get for session i. The view reads
\* stripe_subscription.current_period_end without hasattr.
CheckoutStatus(i, ok) ==
    /\ i \in DOMAIN stripe.sessions
    /\ LET session == stripe.sessions[i]
           row == First({r \in Rows : subs[r].user = session.user_id /\ subs[r].status = "pending"})
       IN  IF ~ok
           THEN /\ last' = Resp("checkout-status", 400, 0, FALSE, FALSE, "Stripe error")
                /\ UNCHANGED subs
           ELSE IF session.subscription # Null /\ session.user_id # Null /\ row # 0
           THEN LET stripe_subscription == stripe.subscriptions[session.subscription]
                IN  IF ~stripe.withCpe
                    THEN \* the attribute read raises before save(): except Exception
                         /\ last' = Resp("checkout-status", 400, row, FALSE, FALSE, "current_period_end")
                         /\ UNCHANGED subs
                    ELSE
                    /\ subs' = [subs EXCEPT ![row] =
                          [@ EXCEPT !.stripe_subscription_id = session.subscription,
                                    !.status = stripe_subscription.status,
                                    !.trial_end = FromTimestamp(stripe_subscription.trial_end),
                                    !.current_period_end =
                                        FromTimestamp(stripe_subscription.current_period_end)]]
                    /\ last' = Resp("checkout-status", 200, row, FALSE, FALSE, "")
           ELSE /\ last' = Resp("checkout-status", 200, 0, FALSE, FALSE, "")
                /\ UNCHANGED subs
    /\ UNCHANGED <<users, webhooks, inflight, stripe, now, engine_log>>
    /\ Counted

\* UserSubscriptionStatusView.get.
SubscriptionStatus(u) ==
    /\ last' = Resp("subscription-status", 200, get_user_active_subscription(u), FALSE, FALSE, "")
    /\ UNCHANGED <<users, subs, webhooks, inflight, stripe, now, engine_log>>
    /\ Counted

\* The view writing the flag before it calls the provider, so that a failed
\* call leaves the flag changed.
StopAutoRenewEager(u, want, ok) ==
    /\ LET row == get_user_active_subscription(u)
       IN  IF row = 0 \/ subs[row].stripe_subscription_id = Null
           THEN /\ last' = Resp("stop-autorenew", 404, 0, FALSE, FALSE, "No active subscription found")
                /\ UNCHANGED subs
           ELSE /\ subs' = [subs EXCEPT ![row].auto_renew = want]
                /\ last' = IF ok THEN Resp("stop-autorenew", 200, row, FALSE, FALSE, "")
                            ELSE Resp("stop-autorenew", 400, row, FALSE, FALSE, "Stripe error")
    /\ UNCHANGED <<users, webhooks, inflight, stripe, now, engine_log>>
    /\ Counted

\* SubscriptionStopAutoRenewalView.post with auto_renew = want; ok: whether
\* stripe.Subscription.modify succeeds.
StopAutoRenew(u, want, ok) ==
    /\ LET row == get_user_active_subscription(u)
       IN  IF row = 0 \/ subs[row].stripe_subscription_id = Null
           THEN /\ last' = Resp("stop-autorenew", 404, 0, FALSE, FALSE, "No active subscription found")
                /\ UNCHANGED subs
           ELSE IF ~ok
           THEN /\ last' = Resp("stop-autorenew", 400, row, FALSE, FALSE, "Stripe error")
                /\ UNCHANGED subs
           ELSE /\ subs' = [subs EXCEPT ![row].auto_renew = want]
                /\ last' = Resp("stop-autorenew", 200, row, FALSE, FALSE, "")
    /\ UNCHANGED <<users, webhooks, inflight, stripe, now, engine_log>>
    /\ Counted

\* TestReferralBenefitsView.post for subscription_id = i.
TestReferral(i) ==
    /\ IF i \in Rows
       THEN /\ users' = process_referral_benefits(users, subs[i].user, subs[i])
            /\ engine_log' = engine_log (+) SetToBag({0})
            /\ last' = Resp("test-referral-benefits", 200, i, TRUE, FALSE, "")
       ELSE /\ last' = Resp("test-referral-benefits", 404, 0, FALSE, FALSE, "Subscription not found")
            /\ UNCHANGED <<users, engine_log>>
    /\ UNCHANGED <<subs, webhooks, inflight, stripe, now>>
    /\ Counted

\* ------------------------------------------------------------ specification
Requests ==
    \/ \E ok \in BOOLEAN : Webhook(ok)
    \/ BadWebhook
    \/ \E i \in 1..MaxRows, ok \in BOOLEAN : CheckoutStatus(i, ok)
    \/ \E u \in Users : SubscriptionStatus(u)
    \/ \E u \in Users, want \in BOOLEAN, ok \in BOOLEAN : StopAutoRenew(u, want, ok)
    \/ \E i \in 1..MaxRows + 1 : TestReferral(i)

Provider ==
    \/ \E i \in 1..MaxRows, st \in ProviderStatuses : Pay(i, st)
    \/ \E sid \in 1..MaxRows, st \in ProviderStatuses, type \in EventTypes :
          ProviderUpdate(sid, st, type)

Next ==
    \/ \E u \in Users, p \in Plans \cup {0}, okCustomer \in BOOLEAN, okSession \in BOOLEAN :
          CreateSubscription(u, p, okCustomer, okSession)
    \/ Requests
    \/ Provider
    \/ Tick

Spec == Init /\ [][Next]_vars

\* The same system with checkout requests running concurrently.
NextRace ==
    \/ \E u \in Users, p \in Plans \cup {0}, ok \in BOOLEAN : StartCheckout(u, p, ok)
    \/ \E ok \in BOOLEAN : FinishCheckout(ok)
    \/ Requests
    \/ Provider
    \/ Tick

SpecRace == Init /\ [][NextRace]_vars

\* The referral benefit engine on its own, for every input it can be given:
\* a purchaser whose referred_by is empty, names a user, or names a referrer
\* whose account no longer exists (referred_by is a plain code, not a foreign
\* key), and a paid row with or without current_period_end.
Dangling == NumUsers + 1

UserTables ==
    {[u \in Users |-> [referral_code |-> u, referred_by |-> rb[u],
                       is_unlimited |-> FALSE, package_expiry |-> Null]] :
        rb \in {f \in [Users -> {Null, Dangling} \cup Users] : \A u \in Users : f[u] # u}}

InitEngine ==
    /\ now = 0
    /\ users \in UserTables
    /\ \E u \in Users, p \in Plans, withCpe \in BOOLEAN :
          LET cpe == IF withCpe THEN calculate_current_period_end(Plan(p), 0) ELSE Null
              paid == [NewSession([user |-> u, plan |-> p, customer |-> 1])
                         EXCEPT !.subscription = 1]
              s == [customer |-> 1, status |-> "active", version |-> 1,
                    trial_end |-> Null, current_period_end |-> cpe]
          IN  /\ subs = <<[PendingRow([user |-> u, plan |-> p, customer |-> 1]) EXCEPT
                               !.stripe_subscription_id = 1,
                               !.status = "active",
                               !.current_period_end = cpe]>>
              /\ stripe = [sessions |-> <<paid>>, subscriptions |-> <<s>>,
                           events |-> {Event(<<"sub", 1, 1>>, "customer.subscription.created",
                                             SubscriptionObject(1, s)),
                                       Event(<<"cs", 1, 1>>, "checkout.session.completed",
                                             SessionObject(1, paid))},
                           updates |-> 0, withCpe |-> withCpe]
    /\ webhooks = EmptyBag
    /\ inflight = EmptyBag
    /\ engine_log = EmptyBag
    /\ last = Resp("init", 0, 0, FALSE, FALSE, "")
    /\ steps = 0

NextEngine ==
    \/ \E i \in 1..MaxRows : TestReferral(i)
    \/ Tick

SpecEngine == InitEngine /\ [][NextEngine]_vars

\* ------------------------------------------------------------ properties
\* C1: every user has at most one Subscription row whose status is active or
\* trialing, after any sequence of checkouts and webhook deliveries.
OneActivePerUser ==
    \A u \in Users : Cardinality(ActiveRows(u)) <= 1

\* C2: a webhook event delivered for a row whose status is canceled leaves
\* that row's status canceled.
CanceledIsTerminal ==
    [][\A i \in Rows :
          /\ subs[i].status = "canceled"
          /\ \E ok \in BOOLEAN : Webhook(ok)
          /\ last'.op \in EventTypes
          /\ last'.evt = subs[i].stripe_subscription_id
          => subs'[i].status = "canceled"]_vars

\* C3: for every emitted event, in every reachable state, handling the event
\* twice in a row leaves the ledger and the users as handling it once does.
RedeliveryIsIdempotent ==
    \A e \in stripe.events :
        LET once == Dispatch(subs, users, e, TRUE, Retrieve(e))
            twice == Dispatch(once.subs, once.users, e, TRUE, Retrieve(e))
        IN  twice.subs = once.subs /\ twice.users = once.users

ActiveBlocksCheckout ==
    [][last'.op = "create-subscription" =>
          \A u \in Users, p \in Plans, okCustomer \in BOOLEAN, okSession \in BOOLEAN :
              ActiveRows(u) # {} /\ CreateSubscription(u, p, okCustomer, okSession)
              => subs' = subs /\ stripe' = stripe /\ last'.code = 400]_vars

\* A checkout request was just rejected because of an active or trialing row.
CheckoutRejected ==
    /\ last.op = "create-subscription"
    /\ last.code = 400
    /\ last.row # 0
    /\ subs[last.row].status \in {"active", "trialing"}
    /\ last.err # ""

\* C6: the referral benefit engine runs at most once for each checkout session.
EngineOncePerCheckout ==
    \A i \in DOMAIN stripe.sessions : CopiesIn(i, engine_log) <= 1

\* C7: once customer.subscription.created and then checkout.session.completed
\* have been handled for the checkout of a referred purchaser, the engine has
\* run for that checkout.
CompletedInvokesEngine ==
    /\ last.op = "checkout.session.completed"
    /\ last.code = 200
    /\ last.err = ""
    /\ last.evt \in DOMAIN stripe.sessions
    /\ users[stripe.sessions[last.evt].user_id].referred_by # Null
    /\ \E w \in BagToSet(webhooks) : w.event_id = <<"sub", last.evt, 1>>
    => CopiesIn(last.evt, engine_log) >= 1

\* C8: for a customer.subscription.created event and a customer.subscription.updated
\* event about the same subscription, handling them in either order leaves the
\* same ledger.
CreatedUpdatedCommute ==
    \A c \in stripe.events, u \in stripe.events :
        /\ c.type = "customer.subscription.created"
        /\ u.type = "customer.subscription.updated"
        /\ c.object.id = u.object.id
        => subscription_updated(subscription_created(subs, users, c.object).subs, users, u.object).subs
           = subscription_created(subscription_updated(subs, users, u.object).subs, users, c.object).subs

\* C9: a step that changes the status of a row is a step of the webhook handler.
StatusChangesOnlyByWebhook ==
    [][(\E i \in Rows : subs'[i].status # subs[i].status)
          => \E ok \in BOOLEAN : Webhook(ok)]_vars

\* C10: the status of every row is one of the six status choices.
StatusInChoices ==
    \A i \in Rows : subs[i].status \in StatusChoices

\* C11: a webhook delivery whose signature or payload is invalid is answered
\* 400 and changes no WebhookEvent row, no Subscription row and no user.
BadSignatureRejected ==
    [][BadWebhook => /\ last'.code = 400
                     /\ webhooks' = webhooks
                     /\ subs' = subs
                     /\ users' = users
                     /\ engine_log' = engine_log]_vars

\* An invalid delivery was just rejected while events of a paid checkout exist.
BadSignatureSeen ==
    /\ last.op = "webhook"
    /\ last.code = 400
    /\ subs # <<>>
    /\ stripe.events # {}

\* C12: every verified delivery is answered 200, whatever its type and whatever
\* its branch does (no row found, retrieval failure, duplicate event id); a 400
\* from the webhook endpoint is a signature or parse failure.
VerifiedAnswers200 ==
    /\ last.op \in EventTypes \cup {OtherEvent.type} => last.code = 200
    /\ last.op = "webhook" => last.code = 400

\* A checkout.session.completed whose retrieval failed, and that was already in
\* the log, was answered 200.
FailedBranchAnswered200 ==
    /\ last.op = "checkout.session.completed"
    /\ last.err # ""
    /\ last.dup
    /\ last.code = 200

\* C13: a customer.subscription.updated event whose subscription id is on no
\* row changes no Subscription row, reports no error and is answered 200.
UpdatedNoMatchNoEffect ==
    [][\A e \in stripe.events :
          /\ e.type = "customer.subscription.updated"
          /\ \A i \in Rows : subs[i].stripe_subscription_id # e.object.id
          /\ stripe_webhook(e, TRUE)
          => subs' = subs /\ users' = users /\ last'.code = 200 /\ last'.err = ""]_vars

\* customer.subscription.updated was just handled while a row existed, and
\* matched none.
UpdatedMatchedNoRow ==
    /\ last.op = "customer.subscription.updated"
    /\ last.row = 0
    /\ last.code = 200
    /\ subs # <<>>
    /\ \E i \in Rows : subs[i].status = "pending" /\ subs[i].stripe_customer_id # Null

\* C14: after every step the WebhookEvent log holds one row per event id, and
\* every row that was in the log before the step is still there, unchanged.
LogAppendOnlyUnique ==
    [][/\ \A w \in BagToSet(webhooks') : CopiesIn(w, webhooks') = 1
       /\ \A v \in BagToSet(webhooks'), w \in BagToSet(webhooks') :
             v.event_id = w.event_id => v = w
       /\ \A w \in BagToSet(webhooks) : CopiesIn(w, webhooks') = CopiesIn(w, webhooks)]_vars

\* An event was just redelivered while the log held rows of two events.
RedeliveredWithLog ==
    /\ last.dup
    /\ BagCardinality(webhooks) >= 2
    /\ \E w \in BagToSet(webhooks) : w.type = last.op

\* C15: a verified delivery whose event id is already in the log stores no
\* second row, and its branch still runs on the ledger and the users.
DuplicateStillDispatched ==
    [][\A e \in stripe.events \cup {OtherEvent}, ok \in BOOLEAN :
          /\ \E w \in BagToSet(webhooks) : w.event_id = e.id
          /\ stripe_webhook(e, ok)
          => /\ webhooks' = webhooks
             /\ subs' = Dispatch(subs, users, e, ok, Retrieve(e)).subs
             /\ users' = Dispatch(subs, users, e, ok, Retrieve(e)).users
             /\ last'.dup]_vars

\* A redelivered checkout.session.completed just updated a row and ran the
\* engine.
DuplicateDispatched ==
    /\ last.dup
    /\ last.op = "checkout.session.completed"
    /\ last.row # 0
    /\ last.engine
    /\ subs[last.row].status # "pending"

\* C16: when the purchaser's referred_by is empty or names no user, a run of
\* the referral benefit engine changes no user and the request is answered.
NoReferrerNoGrant ==
    [][engine_log' # engine_log =>
          LET u == subs[last'.row].user
          IN  (users[u].referred_by = Null
               \/ \A r \in Users : users[r].referral_code # users[u].referred_by)
              => users' = users /\ last'.code = 200]_vars

\* The engine just ran for a purchaser whose referred_by names no user.
EngineRanWithoutReferrer ==
    /\ last.engine
    /\ last.row # 0
    /\ users[subs[last.row].user].referred_by = Dangling
    /\ ~users[subs[last.row].user].is_unlimited

\* C17: a checkout.session.completed event for which no row matches (user id
\* of the metadata, customer id, status pending) changes no Subscription row
\* and no user, and the referral benefit engine is not run.
CompletedNoMatchNoEffect ==
    [][\A e \in stripe.events, ok \in BOOLEAN :
          /\ e.type = "checkout.session.completed"
          /\ ~\E i \in Rows : /\ subs[i].user = e.object.user_id
                              /\ subs[i].stripe_customer_id = e.object.customer
                              /\ subs[i].status = "pending"
          /\ stripe_webhook(e, ok)
          => /\ subs' = subs
             /\ users' = users
             /\ engine_log' = engine_log
             /\ ~last'.engine]_vars

\* checkout.session.completed was just handled, found no pending row although
\* a row carries its subscription, and ran nothing.
CompletedMatchedNoRow ==
    /\ last.op = "checkout.session.completed"
    /\ last.err = ""
    /\ last.row = 0
    /\ ~last.engine
    /\ \E i \in Rows : subs[i].stripe_subscription_id = last.evt

\* C18: calculate_current_period_end is start + interval_count x (1, 7, 30,
\* 365 days for day, week, month, year), and a row to which
\* checkout.session.completed was just applied, the provider supplying no
\* current_period_end, has as current_period_end that value counted from the
\* row's creation time: creation time + 60 days for month x 2.
FallbackPeriodEnd ==
    LET days == [iv \in {"day", "week", "month", "year"} |->
                   CASE iv = "day" -> 1 [] iv = "week" -> 7
                     [] iv = "month" -> 30 [] iv = "year" -> 365]
    IN  /\ \A iv \in DOMAIN days, n \in 1..3, t \in 0..(MaxTicks * TickDays) :
              calculate_current_period_end(
                  [interval |-> iv, interval_count |-> n, trial_days |-> 0], t)
              = t + n * days[iv]
        /\ last.op = "checkout.session.completed" /\ last.row # 0 /\ ~stripe.withCpe
              => LET s == subs[last.row]
                     plan == Plan(s.plan)
                 IN  /\ s.current_period_end
                          = s.created_at + plan.interval_count * days[plan.interval]
                     /\ plan.interval = "month" /\ plan.interval_count = 2
                          => s.current_period_end = s.created_at + 60

\* checkout.session.completed was just applied, some days after the checkout
\* was started, to a row of the month x 2 plan, the provider supplying no
\* current_period_end.
FallbackApplied ==
    /\ last.op = "checkout.session.completed"
    /\ last.row # 0
    /\ ~stripe.withCpe
    /\ subs[last.row].plan = 1
    /\ now > subs[last.row].created_at
    /\ subs[last.row].current_period_end = subs[last.row].created_at + 60

\* C19: a row just created by a checkout request has status pending, and every
\* row whose status is pending has a current_period_end that is not null and
\* is its creation time plus the plan's interval.
PendingHasPeriodEnd ==
    LET days == [iv \in {"day", "week", "month", "year"} |->
                   CASE iv = "day" -> 1 [] iv = "week" -> 7
                     [] iv = "month" -> 30 [] iv = "year" -> 365]
    IN  /\ last.op = "create-subscription" /\ last.code = 201
              => subs[last.row].status = "pending"
        /\ \A i \in Rows :
              subs[i].status = "pending"
              => /\ subs[i].current_period_end # Null
                 /\ subs[i].current_period_end
                      = subs[i].created_at
                        + Plan(subs[i].plan).interval_count * days[Plan(subs[i].plan).interval]

\* A row is still pending after a webhook event that updated another row.
PendingSurvivedWebhook ==
    /\ last.op \in EventTypes
    /\ last.row # 0
    /\ subs[last.row].status # "pending"
    /\ \E i \in Rows : subs[i].status = "pending" /\ subs[i].current_period_end # Null

\* C20: customer.subscription.deleted for subscription id X, handled in any
\* reachable state, sets status canceled on every row whose
\* stripe_subscription_id is X and changes no other field, no other row and no
\* user; after the handler has run, every row with that id is canceled.
DeletedCancelsOnly ==
    /\ \A e \in stripe.events :
          e.type = "customer.subscription.deleted"
          => LET out == Dispatch(subs, users, e, TRUE, Retrieve(e))
             IN  /\ out.users = users
                 /\ out.subs = [i \in Rows |->
                                  IF subs[i].stripe_subscription_id = e.object.id
                                  THEN [subs[i] EXCEPT !.status = "canceled"]
                                  ELSE subs[i]]
    /\ last.op = "customer.subscription.deleted"
          => \A i \in Rows : subs[i].stripe_subscription_id = last.evt
                             => subs[i].status = "canceled"

\* customer.subscription.deleted was just handled and canceled a row.
DeletedCanceledRow ==
    /\ last.op = "customer.subscription.deleted"
    /\ last.row # 0
    /\ subs[last.row].stripe_subscription_id = last.evt
    /\ subs[last.row].status = "canceled"

\* C21: customer.subscription.created, handled in any reachable state, updates
\* one row: a row whose stripe_subscription_id is the event's id if there is
\* one, otherwise a pending row with the event's customer id. On that row it
\* sets the id, status, trial_end and current_period_end of the payload and
\* nothing else; when neither lookup matches, no row changes. No user changes.
CreatedUpdatesOneRow ==
    /\ \A e \in stripe.events :
          e.type = "customer.subscription.created"
          => LET out == Dispatch(subs, users, e, TRUE, Retrieve(e))
                 by_id == {i \in Rows : subs[i].stripe_subscription_id = e.object.id}
                 pending == {i \in Rows : /\ subs[i].stripe_customer_id = e.object.customer
                                          /\ subs[i].status = "pending"}
                 target == IF by_id # {} THEN by_id ELSE pending
             IN  /\ out.users = users
                 /\ target = {} => out.subs = subs
                 /\ target # {} =>
                      \E r \in target :
                          out.subs = [subs EXCEPT ![r] =
                              [@ EXCEPT !.stripe_subscription_id = e.object.id,
                                        !.status = e.object.status,
                                        !.trial_end = e.object.trial_end,
                                        !.current_period_end = e.object.current_period_end]]
    /\ last.op = "customer.subscription.created" /\ last.row # 0
          => subs[last.row].stripe_subscription_id = last.evt

\* customer.subscription.created was just handled and found its row by the
\* subscription id while another row of the customer was pending.
CreatedFoundById ==
    /\ last.op = "customer.subscription.created"
    /\ last.row # 0
    /\ subs[last.row].stripe_subscription_id = last.evt
    /\ \E i \in Rows \ {last.row} :
          /\ subs[i].status = "pending"
          /\ subs[i].stripe_customer_id = subs[last.row].stripe_customer_id

\* C22: a checkout request rejected because of an active or trialing row
\* carries one of the two conflict errors, the trial one or the active-plan one.
ConflictKindReported ==
    last.op = "create-subscription" /\ last.code = 400 /\ last.row # 0
    => last.err \in {"You already have an active trial period",
                     "You already have an active subscription"}

\* C23: a checkout request that passed the plan and conflict checks and whose
\* provider call fails (customer retrieve or create, or session creation) is
\* answered 400 and leaves every Subscription row as it was, with none added.
ProviderFailureNoRow ==
    [][last'.op = "create-subscription" =>
          \A u \in Users, p \in Plans, okCustomer \in BOOLEAN, okSession \in BOOLEAN :
              /\ ~(okCustomer /\ okSession)
              /\ ActiveRows(u) = {}
              /\ CreateSubscription(u, p, okCustomer, okSession)
              => subs' = subs /\ last'.code = 400]_vars

\* A checkout request of a user who already has a row just failed at the
\* provider.
ProviderFailureSeen ==
    /\ last.op = "create-subscription"
    /\ last.code = 400
    /\ last.row = 0
    /\ last.err = "Stripe error"
    /\ subs # <<>>

\* C24: all rows of one user carry the same provider customer id.
OneCustomerPerUser ==
    \A i \in Rows, j \in Rows :
        subs[i].user = subs[j].user => subs[i].stripe_customer_id = subs[j].stripe_customer_id

\* C25: with checkout requests interleaved, a step of a checkout request
\* leaves every existing row as it was, and any row it adds has status pending.
RaceAddsOnlyPending ==
    [][(\E u \in Users, p \in Plans \cup {0}, ok \in BOOLEAN : StartCheckout(u, p, ok))
       \/ (\E ok \in BOOLEAN : FinishCheckout(ok))
       => /\ \A i \in Rows : i \in DOMAIN subs' /\ subs'[i] = subs[i]
          /\ \A i \in DOMAIN subs' \ Rows :
                subs'[i].status = "pending" /\ subs'[i].stripe_subscription_id = Null]_vars

\* Two requests of one user, both started before either inserted, have each
\* inserted a row.
RacedTwoPending ==
    /\ inflight = EmptyBag
    /\ \E i \in Rows, j \in Rows :
          /\ i # j
          /\ subs[i].user = subs[j].user
          /\ subs[i].stripe_customer_id # subs[j].stripe_customer_id
          /\ subs[i].status = "pending"
          /\ subs[j].status = "pending"

\* C26: no two rows carry the same non-null stripe_subscription_id.
UniqueSubscriptionId ==
    \A i \in Rows, j \in Rows :
        i # j /\ subs[i].stripe_subscription_id # Null
        => subs[i].stripe_subscription_id # subs[j].stripe_subscription_id

\* C27: the row that checkout.session.completed has just moved out of pending
\* is of the plan named in the metadata of the event's checkout session.
CompletedUpdatesItsRow ==
    last.op = "checkout.session.completed" /\ last.row # 0
    => subs[last.row].plan = stripe.sessions[last.evt].plan_id

\* C28: handling checkout.session.completed never moves a user's
\* package_expiry to an earlier value than the one the user held before.
ExpiryNeverEarlier ==
    [][last'.op = "checkout.session.completed" =>
          \A u \in Users :
              users[u].package_expiry # Null
              => users'[u].package_expiry >= users[u].package_expiry]_vars

\* C29: rows with the same provider customer id belong to the same user, and
\* a webhook step changes only rows of the user the event is about (the user
\* in the session's metadata, or the user whose checkout session produced the
\* event's provider subscription).
WebhookTouchesOwnRows ==
    [][/\ \A i \in DOMAIN subs', j \in DOMAIN subs' :
              subs'[i].stripe_customer_id = subs'[j].stripe_customer_id
              => subs'[i].user = subs'[j].user
       /\ last'.op \in EventTypes =>
              \A e \in stripe.events, ok \in BOOLEAN :
                  stripe_webhook(e, ok)
                  => \A i \in Rows :
                        subs'[i] # subs[i]
                        => subs[i].user \in
                              IF e.type = "checkout.session.completed"
                              THEN {e.object.user_id}
                              ELSE {stripe.sessions[k].user_id :
                                      k \in {n \in DOMAIN stripe.sessions :
                                               stripe.sessions[n].subscription = e.object.id}}]_vars

\* Two users have rows and customer.subscription.created has just updated
\* one of them through the customer-id fallback.
CreatedBesideOtherUser ==
    /\ last.op = "customer.subscription.created"
    /\ last.row # 0
    /\ \E i \in Rows : subs[i].user # subs[last.row].user
    /\ \A i \in Rows : i # last.row => subs[i].stripe_subscription_id = Null

\* C30: the auto-renew toggle answers 404 and changes nothing when the caller
\* has no active or trialing row with a provider subscription id, changes
\* nothing when the provider call fails, and otherwise sets auto_renew of the
\* caller's active row to the requested value, all other fields and rows
\* staying as they were; no other handler changes auto_renew of any row.
AutoRenewFrame ==
    [][IF last'.op = "stop-autorenew"
       THEN \A u \in Users, want \in BOOLEAN, ok \in BOOLEAN :
                StopAutoRenew(u, want, ok)
                => LET row == get_user_active_subscription(u)
                   IN  /\ (\A i \in ActiveRows(u) : subs[i].stripe_subscription_id = Null)
                          => subs' = subs /\ last'.code = 404
                       /\ ~ok => subs' = subs /\ last'.code # 200
                       /\ last'.code = 200
                          => /\ row \in ActiveRows(u)
                             /\ subs' = [subs EXCEPT ![row].auto_renew = want]
                       /\ last'.code # 200 => subs' = subs
       ELSE \A i \in Rows : subs'[i].auto_renew = subs[i].auto_renew]_vars

\* The toggle has just switched auto-renewal off on the caller's active row.
AutoRenewStopped ==
    /\ last.op = "stop-autorenew"
    /\ last.code = 200
    /\ ~subs[last.row].auto_renew
    /\ subs[last.row].status \in {"active", "trialing"}
====
